---------------------------- MODULE Spec2Model ----------------------------
(***************************************************************************)
(* Model of the bebi103_9_2 package: bacteria.py (growth-event detection   *)
(* and time normalisation), image.py (zero-crossing filter and the         *)
(* Laplacian-of-Gaussian segmentation pipeline) and model.py (growth       *)
(* models, likelihood, AIC and the module-level random generator).         *)
(*                                                                         *)
(* The program is a library of functions.  A state records the last call   *)
(* that returned: the function (op), the arguments as passed (args), the   *)
(* same argument objects as the caller sees them after the return          *)
(* (argsAfter), the returned value (ret) and the one piece of process-wide *)
(* state, the generator model.rg (rg).  The segmentation pipeline is       *)
(* modelled stage by stage: pc is the stage last completed and img the     *)
(* local image that stage produced.                                        *)
(***************************************************************************)
EXTENDS Integers, Sequences, FiniteSets

VARIABLES op, args, argsAfter, ret, rg, pc, img

vars == <<op, args, argsAfter, ret, rg, pc, img>>

(***************************************************************************)
(* Bounds and input sets                                                   *)
(***************************************************************************)
\* longest list of areas handed to detect_growth_events
MaxAreas == 5
\* longest pair of lists handed to normalize_times
MaxTimes == 3

\* side of the square test images
ImgN == 5
\* pixels of a grey test image that differ from its uniform background
MaxSeeds == 1

\* longest list of observations (times, areas) handed to model.py
MaxObs == 2
\* most vector draws the generator serves in one run of the model
MaxDraws == 2

\* the areas of the documented scenario [100, 105, 40, 45, 50]
AreaVals == {40, 45, 50, 100, 105}
\* the default threshold and the scenario's second threshold
Thresholds == {-350, -50}
TimeVals == {0, 1, 2}
EventVals == {0, 1, 2}

SeqsUpTo(S, n) == UNION {[1..k -> S] : k \in 0..n}

(***************************************************************************)
(* Generic helpers                                                         *)
(***************************************************************************)
SetMin(S) == CHOOSE x \in S : \A y \in S : x <= y
SetMax(S) == CHOOSE x \in S : \A y \in S : x >= y

RECURSIVE SortedSeq(_)
\* sorted(...) of a set of integers: the ascending list of its members
SortedSeq(S) ==
  IF S = {} THEN <<>> ELSE <<SetMin(S)>> \o SortedSeq(S \ {SetMin(S)})

RECURSIVE DescendingSeq(_)
DescendingSeq(S) ==
  IF S = {} THEN <<>> ELSE <<SetMax(S)>> \o DescendingSeq(S \ {SetMax(S)})

(***************************************************************************)
(* bacteria.py                                                             *)
(***************************************************************************)
\* np.diff(areas): the n-1 consecutive differences (none for n <= 1)
Diff(areas) == [i \in 1..(Len(areas) - 1) |-> areas[i + 1] - areas[i]]

\* a mutation of the comparison: a drop equal to the threshold counts
IsDropInclusive(d, threshold) == d <= threshold

\* np.diff(areas) < threshold, one element
IsDrop(d, threshold) == d < threshold

RECURSIVE EventsLoop(_, _, _, _, _)
\* the for loop of detect_growth_events from element i of the differences
EventsLoop(d, threshold, i, event_id, events) ==
  IF i > Len(d) THEN events
  ELSE LET next_id == IF IsDrop(d[i], threshold) THEN event_id + 1 ELSE event_id
       IN  EventsLoop(d, threshold, i + 1, next_id, Append(events, next_id))

detect_growth_events(areas, threshold) ==
  EventsLoop(Diff(areas), threshold, 1, 0, <<0>>)

\* np.unique(events): the distinct values
Unique(events) == {events[i] : i \in 1..Len(events)}

RECURSIVE MaskSelectFrom(_, _, _)
\* times[mask] from index i on: the elements where the mask is set, in order
MaskSelectFrom(xs, mask, i) ==
  IF i > Len(xs) THEN <<>>
  ELSE (IF mask[i] THEN <<xs[i]>> ELSE <<>>) \o MaskSelectFrom(xs, mask, i + 1)

RECURSIVE MaskSelectReversedFrom(_, _, _)
MaskSelectReversedFrom(xs, mask, i) ==
  IF i > Len(xs) THEN <<>>
  ELSE MaskSelectReversedFrom(xs, mask, i + 1) \o (IF mask[i] THEN <<xs[i]>> ELSE <<>>)

\* a mutation: the selected times come out in reverse input order
EventTimesReversed(times, events, event) ==
  MaskSelectReversedFrom(times, [i \in 1..Len(events) |-> events[i] = event], 1)

\* times[events == event]
EventTimes(times, events, event) ==
  MaskSelectFrom(times, [i \in 1..Len(events) |-> events[i] = event], 1)

SeqMin(xs) == SetMin({xs[i] : i \in 1..Len(xs)})

\* a mutation: the time since the first record of the event, not its minimum
ShiftByFirst(event_times) ==
  [i \in 1..Len(event_times) |-> event_times[i] - event_times[1]]

\* list(event_times - min(event_times))
ShiftByMin(event_times) ==
  [i \in 1..Len(event_times) |-> event_times[i] - SeqMin(event_times)]

\* a mutation: the event ids are walked in descending order
EventOrderDescending(events) == DescendingSeq(Unique(events))

\* sorted(np.unique(events))
EventOrder(events) == SortedSeq(Unique(events))

RECURSIVE NormalizeLoop(_, _, _, _, _)
\* the for loop of normalize_times from element i of the sorted event ids
NormalizeLoop(times, events, order, i, normalized_times) ==
  IF i > Len(order) THEN normalized_times
  ELSE NormalizeLoop(times, events, order, i + 1,
         normalized_times \o ShiftByMin(EventTimes(times, events, order[i])))

normalize_times(times, events) ==
  NormalizeLoop(times, events, EventOrder(events), 1, <<>>)

(***************************************************************************)
(* image.py                                                                *)
(*                                                                         *)
(* An image is a function from the pixels <<row, col>> of an ImgN x ImgN   *)
(* grid to its values: integers for a grey image (exactly representable    *)
(* floats), booleans for a mask.  A threshold is a rational num/den.       *)
(***************************************************************************)
Rows == 0..(ImgN - 1)
Pix == Rows \X Rows

PixelVals == {-1, 0, 1}

RECURSIVE WithSeeds(_, _)
\* the images that differ from `base` in at most k pixels
WithSeeds(base, k) ==
  IF k = 0 THEN {base}
  ELSE LET prev == WithSeeds(base, k - 1)
       IN  prev \cup {[im EXCEPT ![p] = v] : im \in prev, p \in Pix, v \in PixelVals}

\* grey test images: a uniform background with at most MaxSeeds other pixels
GreyImages == UNION {WithSeeds([p \in Pix |-> b], MaxSeeds) : b \in PixelVals}

\* point images: a uniform background b with the one pixel s set to v
PointImages ==
  {[p \in Pix |-> IF p = s THEN v ELSE b] : s \in Pix, v \in PixelVals, b \in PixelVals}

\* the default threshold of the segmentation, 0 and one larger value; none
\* is a value the gradient of an image over PixelVals takes exactly
ZeroThreshold == [num |-> 0, den |-> 1]
DefaultThreshold == [num |-> 1, den |-> 1000]
CoarseThreshold == [num |-> 5, den |-> 16]

\* the True pixels of a mask
On(mask) == {p \in Pix : mask[p]}
MaskOf(S) == [p \in Pix |-> p \in S]

\* index of a pixel read outside the image under scipy's default boundary
\* mode 'reflect' (d c b a | a b c d | d c b a), one step outside
Reflect(i) == IF i < 0 THEN 0 ELSE IF i > ImgN - 1 THEN ImgN - 1 ELSE i
At(im, r, c) == im[<<Reflect(r), Reflect(c)>>]

\* the values under the 3x3 footprint skimage.morphology.square(3) at p
Footprint(im, p) ==
  {At(im, p[1] + dr, p[2] + dc) : dr \in {-1, 0, 1}, dc \in {-1, 0, 1}}

\* scipy.ndimage maximum_filter / minimum_filter with that footprint
maximum_filter(im) == [p \in Pix |-> SetMax(Footprint(im, p))]
minimum_filter(im) == [p \in Pix |-> SetMin(Footprint(im, p))]

\* skimage.filters.sobel(im): the two Sobel responses, here times 4 (the
\* kernel is [1 2 1]/4 across and [1 0 -1] along the axis, boundary mode
\* 'reflect'), and the magnitude sqrt((h^2 + v^2) / 2) of h = SobelH/4 and
\* v = SobelV/4.  What the filter reports on the outermost rows and columns
\* depends on the installed scikit-image, which the package does not pin:
\* up to 0.17 the responses are set to 0 there ("zeroed"), from 0.18 on they
\* are the reflected convolution like everywhere else ("reflected").
SobelBorders == {"zeroed", "reflected"}

OnImageBorder(p) == p[1] \in {0, ImgN - 1} \/ p[2] \in {0, ImgN - 1}

SobelH(im, p, sobel_border) ==
  LET r == p[1]
      c == p[2]
  IN  IF sobel_border = "zeroed" /\ OnImageBorder(p) THEN 0 ELSE
      (At(im, r - 1, c - 1) + 2 * At(im, r - 1, c) + At(im, r - 1, c + 1))
      - (At(im, r + 1, c - 1) + 2 * At(im, r + 1, c) + At(im, r + 1, c + 1))

SobelV(im, p, sobel_border) ==
  LET r == p[1]
      c == p[2]
  IN  IF sobel_border = "zeroed" /\ OnImageBorder(p) THEN 0 ELSE
      (At(im, r - 1, c - 1) + 2 * At(im, r, c - 1) + At(im, r + 1, c - 1))
      - (At(im, r - 1, c + 1) + 2 * At(im, r, c + 1) + At(im, r + 1, c + 1))

\* im_grad >= threshold at p: sqrt((H^2 + V^2) / 32) >= num/den
GradAtLeast(im, p, threshold, sobel_border) ==
  \/ threshold.num <= 0
  \/ LET h == SobelH(im, p, sobel_border)
         v == SobelV(im, p, sobel_border)
     IN  (h * h + v * v) * threshold.den * threshold.den
           >= 32 * threshold.num * threshold.num

\* a mutation: the sign tests of the crossing are strict
SignChangeStrict(v, lo, hi) == (v > 0 /\ lo < 0) \/ (v < 0 /\ hi > 0)

\* ((im >= 0) & (im_min < 0)) | ((im <= 0) & (im_max > 0)) at one pixel
SignChange(v, lo, hi) == (v >= 0 /\ lo < 0) \/ (v <= 0 /\ hi > 0)

zero_crossing_filter(im, threshold, sobel_border) ==
  LET im_max == maximum_filter(im)
      im_min == minimum_filter(im)
  IN  [p \in Pix |-> /\ SignChange(im[p], im_min[p], im_max[p])
                     /\ GradAtLeast(im, p, threshold, sobel_border)]

\* 4-connectivity (connectivity 1) and 8-connectivity (connectivity 2)
Adjacent(p, q, connectivity) ==
  LET dr == IF p[1] > q[1] THEN p[1] - q[1] ELSE q[1] - p[1]
      dc == IF p[2] > q[2] THEN p[2] - q[2] ELSE q[2] - p[2]
  IN  IF connectivity = 1 THEN dr + dc = 1
      ELSE dr <= 1 /\ dc <= 1 /\ dr + dc >= 1

RECURSIVE Flood(_, _, _)
\* the pixels of `allowed` connected to the set S (S included)
Flood(S, allowed, connectivity) ==
  LET more == {q \in allowed \ S : \E p \in S : Adjacent(p, q, connectivity)}
  IN  IF more = {} THEN S ELSE Flood(S \cup more, allowed, connectivity)

\* the connected components of a set of pixels
Components(S, connectivity) == {Flood({p}, S, connectivity) : p \in S}

\* the masks skimage.morphology.skeletonize may return for an edge mask.
\* The thinning only removes pixels; which ones is decided by a lookup table
\* inside the library, so every subset of the edge mask is allowed.
Skeletons(im_edge) == {MaskOf(T) : T \in SUBSET On(im_edge)}

\* scipy.ndimage binary_fill_holes, default structure (connectivity 1): the
\* background reachable from outside the image stays, the rest is filled
binary_fill_holes(mask) ==
  LET bg == Pix \ On(mask)
      rim == {p \in bg : p[1] \in {0, ImgN - 1} \/ p[2] \in {0, ImgN - 1}}
      outside == IF rim = {} THEN {} ELSE Flood(rim, bg, 1)
  IN  MaskOf(Pix \ outside)

\* a mutation: components one pixel short of min_size are kept
TooSmallOffByOne(size, min_size) == size < min_size - 1

\* component_sizes < min_size
TooSmall(size, min_size) == size < min_size

\* skimage.morphology.remove_small_objects on a boolean image, default
\* connectivity 1
remove_small_objects(mask, min_size) ==
  MaskOf(UNION {c \in Components(On(mask), 1) : ~TooSmall(Cardinality(c), min_size)})

\* clear_border's borders mask: slice(ext) and slice(-ext, None) on each
\* axis, ext = buffer_size + 1
BorderZone(buffer_size) ==
  {p \in Pix : \/ p[1] < buffer_size + 1 \/ p[1] >= ImgN - (buffer_size + 1)
               \/ p[2] < buffer_size + 1 \/ p[2] >= ImgN - (buffer_size + 1)}

\* skimage.segmentation.clear_border: relabels with the default (full)
\* connectivity and clears every object with a pixel in the border zone
clear_border(mask, buffer_size) ==
  MaskOf(UNION {c \in Components(On(mask), 2) : c \cap BorderZone(buffer_size) = {}})

\* raster (C order) rank of a pixel
Raster(p) == p[1] * ImgN + p[2]
FirstPixel(c) == SetMin({Raster(p) : p \in c})

\* the objects skimage.measure.label numbers: for a boolean image the True
\* pixels, or the False ones when background = 1
Foreground(mask, background) ==
  IF background = 1 THEN Pix \ On(mask) ELSE On(mask)

\* the num of label(..., return_num=True): the largest label
LabelCount(comps) == Cardinality(comps)

\* skimage.measure.label(mask, background=background, return_num=True):
\* objects under full connectivity numbered 1, 2, ... in raster order of
\* their first pixel, 0 elsewhere; returns (labels, num)
label(mask, background) ==
  LET comps == Components(Foreground(mask, background), 2)
      number(c) == Cardinality({d \in comps : FirstPixel(d) <= FirstPixel(c)})
      labels == [p \in Pix |->
                   IF \E c \in comps : p \in c
                   THEN number(CHOOSE c \in comps : p \in c)
                   ELSE 0]
  IN  <<labels, LabelCount(comps)>>

(***************************************************************************)
(* model.py                                                                *)
(*                                                                         *)
(* Numbers are kept exact.  An area is an integer combination of the       *)
(* powers e^0 .. e^MaxExp (a function from the exponent to its             *)
(* coefficient), which is what the two growth models give for integer      *)
(* a_0, k and t; the powers of e are linearly independent over the         *)
(* rationals, so two areas are equal exactly when their coefficients are.  *)
(* A log-likelihood is q/8 + ln2 * ln(2) + hl2pi * (ln(2 pi)/2) with q     *)
(* such a combination, or nan.                                             *)
(***************************************************************************)
A0Vals == {1, 2}
KVals == {0, 1}
SigmaVals == {0, 1, 2}
ObsTimes == {0, 1, 2}
ObsAreas == {1, 3}
NoiseVals == {-1, 1}
Models == {"linear_growth_model", "exponential_growth_model"}

\* the points of the box [0, inf) x [0, inf) at which the residual of
\* integer data over ObsTimes and ObsAreas can vanish
FitA0Vals == 1..SetMax(ObsAreas)
FitKVals == 0..(SetMax(ObsAreas) - SetMin(ObsAreas))

\* largest power of e in a squared residual: twice the largest k * t
MaxExp == 2 * SetMax({k * t : k \in KVals \cup FitKVals, t \in ObsTimes})
Exps == 0..MaxExp

Const(c) == [m \in Exps |-> IF m = 0 THEN c ELSE 0]
Mono(c, x) == [m \in Exps |-> IF m = x THEN c ELSE 0]
PAdd(a, b) == [m \in Exps |-> a[m] + b[m]]
PSub(a, b) == [m \in Exps |-> a[m] - b[m]]
PScale(c, a) == [m \in Exps |-> c * a[m]]

RECURSIVE Convolve(_, _, _, _)
\* sum of a[j] * b[m - j] for j = i .. m
Convolve(a, b, m, i) ==
  IF i > m THEN 0 ELSE a[i] * b[m - i] + Convolve(a, b, m, i + 1)

\* product of two combinations of powers of e whose degrees add up to at
\* most MaxExp
PMul(a, b) == [m \in Exps |-> Convolve(a, b, m, 0)]

\* a_0 * (1 + k * t)
linear_growth_model(a_0, k, t) == Const(a_0 * (1 + k * t))

\* a_0 * np.exp(k * t)
exponential_growth_model(a_0, k, t) == Mono(a_0, k * t)

\* model(a_0, k, times) for an array of times: elementwise
ModelOver(model, a_0, k, times) ==
  [i \in 1..Len(times) |->
     IF model = "linear_growth_model" THEN linear_growth_model(a_0, k, times[i])
     ELSE exponential_growth_model(a_0, k, times[i])]

\* areas - model(*params, times), params = (a_0, k)
residual(params, times, areas, model) ==
  LET mu == ModelOver(model, params[1], params[2], times)
  IN  [i \in 1..Len(times) |-> PSub(Const(areas[i]), mu[i])]

RECURSIVE PSumSeq(_, _)
PSumSeq(xs, i) ==
  IF i > Len(xs) THEN Const(0) ELSE PAdd(xs[i], PSumSeq(xs, i + 1))

\* np.sum(r ** 2)
SumOfSquares(r) == PSumSeq([i \in 1..Len(r) |-> PMul(r[i], r[i])], 1)

\* the points of the box where every residual is 0
ExactFits(times, areas, model) ==
  {x \in FitA0Vals \X FitKVals :
     \A i \in 1..Len(times) : residual(x, times, areas, model)[i] = Const(0)}

\* data that determine (a_0, k): two different times, and a point of the
\* box with residual 0, which is then the only minimiser of the sum of
\* squares in the box
HasExactFit(times, areas, model) ==
  /\ \E i, j \in 1..Len(times) : times[i] # times[j]
  /\ ExactFits(times, areas, model) # {}

\* res.x of scipy.optimize.least_squares(r, initial_params, args=(times,
\* areas), bounds=bounds) on data with an exact fit: the minimiser of the
\* sum of squared residuals in the box (the value the iteration converges
\* to, without its rounding)
least_squares(times, areas, model) ==
  CHOOSE x \in ExactFits(times, areas, model) : TRUE

\* growth_area_mle_lstq: res.x and sigma_mle = sqrt(rss_mle / len(times)),
\* the root kept as the pair under it
growth_area_mle_lstq(times, areas, model) ==
  LET x == least_squares(times, areas, model)
  IN  <<x[1], x[2],
        [sqrt_of |-> SumOfSquares(residual(x, times, areas, model)),
         over |-> Len(times)]>>

\* a mutation: every sample of the matrix is drawn by a call of its own
AdvanceBySample(g, n) == [calls |-> g.calls + n, samples |-> g.samples + n]

\* one rg.normal(mu, sigma) with mu of length n: one call, n samples
AdvanceByVector(g, n) == [calls |-> g.calls + 1, samples |-> g.samples + n]

RECURSIVE GenerateLoop(_, _, _, _, _, _, _)
\* the for loop of generate_growth_data from replicate i: returns the
\* samples and the generator state it ends with.  noise[i][j] is the
\* standard normal deviate behind sample j of replicate i.
GenerateLoop(params, model, times, size, noise, i, acc) ==
  IF i > size THEN acc
  ELSE LET mu == ModelOver(model, params[1], params[2], times)
           sigma == params[3]
           row == [j \in 1..Len(times) |-> PAdd(mu[j], Const(sigma * noise[i][j]))]
       IN  GenerateLoop(params, model, times, size, noise, i + 1,
                        [samples |-> Append(acc.samples, row),
                         rg |-> AdvanceByVector(acc.rg, Len(times))])

generate_growth_data(params, model, times, size, noise, g) ==
  GenerateLoop(params, model, times, size, noise, 1, [samples |-> <<>>, rg |-> g])

NaN == [nan |-> TRUE, q |-> Const(0), ln2 |-> 0, hl2pi |-> 0]
Real(q, l, h) == [nan |-> FALSE, q |-> q, ln2 |-> l, hl2pi |-> h]
RAdd(a, b) ==
  IF a.nan \/ b.nan THEN NaN
  ELSE Real(PAdd(a.q, b.q), a.ln2 + b.ln2, a.hl2pi + b.hl2pi)
\* a - n for an integer n
RMinusInt(a, n) ==
  IF a.nan THEN NaN ELSE Real(PSub(a.q, Const(8 * n)), a.ln2, a.hl2pi)
\* c * a for an integer c
RTimesInt(c, a) ==
  IF a.nan THEN NaN ELSE Real(PScale(c, a.q), c * a.ln2, c * a.hl2pi)

\* st.norm.logpdf(x, mu, sigma) = -(x - mu)^2 / (2 sigma^2) - ln(sigma)
\* - ln(2 pi)/2 for sigma > 0, nan otherwise; sigma is 1 or 2 here
logpdf(x, mu, sigma) ==
  IF sigma <= 0 THEN NaN
  ELSE LET d == PSub(x, mu)
       IN  Real(PScale(-1 * (IF sigma = 1 THEN 4 ELSE 1), PMul(d, d)),
                IF sigma = 1 THEN 0 ELSE -1,
                -1)

RECURSIVE RSumSeq(_, _)
\* np.sum of a list of numbers (0 for the empty list)
RSumSeq(xs, i) ==
  IF i > Len(xs) THEN Real(Const(0), 0, 0) ELSE RAdd(xs[i], RSumSeq(xs, i + 1))

log_likelihood(params, model, times, areas) ==
  LET a_0 == params[1]
      k == params[2]
      sigma == params[3]
      mu == ModelOver(model, a_0, k, times)
  IN  RSumSeq([i \in 1..Len(times) |-> logpdf(Const(areas[i]), mu[i], sigma)], 1)

\* a mutation: the penalty is added outside the factor -2
compute_AIC_penalty_outside(params, model, times, areas) ==
  RMinusInt(RTimesInt(-2, log_likelihood(params, model, times, areas)), Len(params))

\* -2 * (log_likelihood(params, model, times, areas) - len(params))
compute_AIC(params, model, times, areas) ==
  RTimesInt(-2, RMinusInt(log_likelihood(params, model, times, areas), Len(params)))

(***************************************************************************)
(* State machine                                                           *)
(***************************************************************************)
NoValue == "none"

Init ==
  /\ op = "none"
  /\ args = NoValue
  /\ argsAfter = NoValue
  /\ ret = NoValue
  /\ rg = [calls |-> 0, samples |-> 0]
  /\ pc = "idle"
  /\ img = NoValue

\* the caller holds no result: the next call can be made
Idle == op = "none" /\ pc = "idle"

DetectGrowthEvents ==
  /\ Idle
  /\ \E areas \in SeqsUpTo(AreaVals, MaxAreas), threshold \in Thresholds :
       /\ op' = "detect_growth_events"
       /\ args' = [areas |-> areas, threshold |-> threshold]
       /\ argsAfter' = args'
       /\ ret' = detect_growth_events(areas, threshold)
  /\ UNCHANGED <<rg, pc, img>>

NormalizeTimes ==
  /\ Idle
  /\ \E n \in 0..MaxTimes :
       \E times \in [1..n -> TimeVals], events \in [1..n -> EventVals] :
         /\ op' = "normalize_times"
         /\ args' = [times |-> times, events |-> events]
         /\ argsAfter' = args'
         /\ ret' = normalize_times(times, events)
  /\ UNCHANGED <<rg, pc, img>>

\* the caller is done with the returned value and goes on to its next call;
\* nothing of a finished call survives except the generator state
Continue ==
  /\ op # "none"
  /\ pc = "idle"
  /\ op' = "none"
  /\ args' = NoValue
  /\ argsAfter' = NoValue
  /\ ret' = NoValue
  /\ UNCHANGED <<rg, pc, img>>

(***************************************************************************)
(* image.py calls                                                          *)
(***************************************************************************)
ZcThresholds == {ZeroThreshold, DefaultThreshold, CoarseThreshold}
SegThresholds == {DefaultThreshold}
MinSizes == {1, 8}
BufferSizes == {0, 1}
Backgrounds == {0, 1}

ZeroCrossingFilter ==
  /\ Idle
  /\ \E im \in GreyImages, threshold \in ZcThresholds :
       /\ op' = "zero_crossing_filter"
       /\ args' = [im |-> im, threshold |-> threshold]
       /\ argsAfter' = args'
       /\ \E sobel_border \in SobelBorders :
            ret' = zero_crossing_filter(im, threshold, sobel_border)
  /\ UNCHANGED <<rg, pc, img>>

\* laplacian_of_gaussian_segmentation is entered and its first statement
\* runs.  gaussian_laplace is a floating-point convolution of the raw image
\* inside scipy; its result im_LoG is taken to be any point image, and
\* the raw image and sigma, which are read nowhere else, are not recorded.
SegGaussianLaplace ==
  /\ Idle
  /\ \E threshold \in SegThresholds, min_size \in MinSizes,
        buffer_size \in BufferSizes, background \in Backgrounds :
       /\ args' = [threshold |-> threshold, min_size |-> min_size,
                   buffer_size |-> buffer_size, background |-> background]
       /\ argsAfter' = args'
  /\ \E im_LoG \in PointImages : img' = im_LoG
  /\ op' = "laplacian_of_gaussian_segmentation"
  /\ pc' = "gaussian_laplace"
  /\ UNCHANGED <<ret, rg>>

SegZeroCrossing ==
  /\ pc = "gaussian_laplace"
  /\ \E sobel_border \in SobelBorders :
       img' = zero_crossing_filter(img, args.threshold, sobel_border)
  /\ pc' = "zero_crossing_filter"
  /\ UNCHANGED <<op, args, argsAfter, ret, rg>>

SegSkeletonize ==
  /\ pc = "zero_crossing_filter"
  /\ \E im_edge \in Skeletons(img) : img' = im_edge
  /\ pc' = "skeletonize"
  /\ UNCHANGED <<op, args, argsAfter, ret, rg>>

SegFillHoles ==
  /\ pc = "skeletonize"
  /\ img' = binary_fill_holes(img)
  /\ pc' = "binary_fill_holes"
  /\ UNCHANGED <<op, args, argsAfter, ret, rg>>

SegRemoveSmallObjects ==
  /\ pc = "binary_fill_holes"
  /\ img' = remove_small_objects(img, args.min_size)
  /\ pc' = "remove_small_objects"
  /\ UNCHANGED <<op, args, argsAfter, ret, rg>>

SegClearBorder ==
  /\ pc = "remove_small_objects"
  /\ img' = clear_border(img, args.buffer_size)
  /\ pc' = "clear_border"
  /\ UNCHANGED <<op, args, argsAfter, ret, rg>>

\* the return statement: the label call; the locals are gone afterwards
SegLabel ==
  /\ pc = "clear_border"
  /\ ret' = label(img, args.background)
  /\ img' = NoValue
  /\ pc' = "idle"
  /\ UNCHANGED <<op, args, argsAfter, rg>>

NextZeroCrossing == ZeroCrossingFilter \/ Continue

SpecZeroCrossing == Init /\ [][NextZeroCrossing]_vars

NextSegmentation ==
  \/ SegGaussianLaplace
  \/ SegZeroCrossing
  \/ SegSkeletonize
  \/ SegFillHoles
  \/ SegRemoveSmallObjects
  \/ SegClearBorder
  \/ SegLabel
  \/ Continue

SpecSegmentation == Init /\ [][NextSegmentation]_vars

(***************************************************************************)
(* model.py calls                                                          *)
(***************************************************************************)
ParamTuples == A0Vals \X KVals \X SigmaVals
\* lists of observation times with a list of areas of the same length
Observations ==
  UNION {[1..n -> ObsTimes] \X [1..n -> ObsAreas] : n \in 0..MaxObs}

LinearGrowthModel ==
  /\ Idle
  /\ \E a_0 \in A0Vals, k \in KVals, t \in ObsTimes :
       /\ op' = "linear_growth_model"
       /\ args' = [a_0 |-> a_0, k |-> k, t |-> t]
       /\ argsAfter' = args'
       /\ ret' = linear_growth_model(a_0, k, t)
  /\ UNCHANGED <<rg, pc, img>>

ExponentialGrowthModel ==
  /\ Idle
  /\ \E a_0 \in A0Vals, k \in KVals, t \in ObsTimes :
       /\ op' = "exponential_growth_model"
       /\ args' = [a_0 |-> a_0, k |-> k, t |-> t]
       /\ argsAfter' = args'
       /\ ret' = exponential_growth_model(a_0, k, t)
  /\ UNCHANGED <<rg, pc, img>>

Residual ==
  /\ Idle
  /\ \E params \in A0Vals \X KVals, obs \in Observations, model \in Models :
       /\ op' = "residual"
       /\ args' = [params |-> params, times |-> obs[1], areas |-> obs[2],
                   model |-> model]
       /\ argsAfter' = args'
       /\ ret' = residual(params, obs[1], obs[2], model)
  /\ UNCHANGED <<rg, pc, img>>

\* called with the default initial_params and bounds on data with an exact
\* fit in the box
GrowthAreaMleLstq ==
  /\ Idle
  /\ \E obs \in Observations, model \in Models :
       /\ HasExactFit(obs[1], obs[2], model)
       /\ op' = "growth_area_mle_lstq"
       /\ args' = [times |-> obs[1], areas |-> obs[2], model |-> model,
                   initial_params |-> <<1, 0>>]
       /\ argsAfter' = args'
       /\ ret' = growth_area_mle_lstq(obs[1], obs[2], model)
  /\ UNCHANGED <<rg, pc, img>>

\* the generator serves at most MaxDraws vector draws in a run of the model
GenerateGrowthData ==
  /\ Idle
  /\ \E params \in ParamTuples, model \in Models, n \in 0..MaxObs,
        size \in 0..MaxDraws :
       /\ rg.calls + size <= MaxDraws
       /\ \E times \in [1..n -> ObsTimes],
             noise \in [1..size -> [1..n -> NoiseVals]] :
            LET out == generate_growth_data(params, model, times, size, noise, rg)
            IN  /\ op' = "generate_growth_data"
                /\ args' = [params |-> params, model |-> model, times |-> times,
                            size |-> size]
                /\ argsAfter' = args'
                /\ ret' = out.samples
                /\ rg' = out.rg
  /\ UNCHANGED <<pc, img>>

LogLikelihood ==
  /\ Idle
  /\ \E params \in ParamTuples, model \in Models, obs \in Observations :
       /\ op' = "log_likelihood"
       /\ args' = [params |-> params, model |-> model, times |-> obs[1],
                   areas |-> obs[2]]
       /\ argsAfter' = args'
       /\ ret' = log_likelihood(params, model, obs[1], obs[2])
  /\ UNCHANGED <<rg, pc, img>>

ComputeAIC ==
  /\ Idle
  /\ \E params \in ParamTuples, model \in Models, obs \in Observations :
       /\ op' = "compute_AIC"
       /\ args' = [params |-> params, model |-> model, times |-> obs[1],
                   areas |-> obs[2]]
       /\ argsAfter' = args'
       /\ ret' = compute_AIC(params, model, obs[1], obs[2])
  /\ UNCHANGED <<rg, pc, img>>

\* the functions of model.py that do not draw from the generator
NextLikelihood ==
  \/ LinearGrowthModel
  \/ ExponentialGrowthModel
  \/ Residual
  \/ GrowthAreaMleLstq
  \/ LogLikelihood
  \/ ComputeAIC
  \/ Continue

SpecLikelihood == Init /\ [][NextLikelihood]_vars

NextBacteria == DetectGrowthEvents \/ NormalizeTimes \/ Continue

SpecBacteria == Init /\ [][NextBacteria]_vars

\* every operation of the package
Next ==
  \/ DetectGrowthEvents
  \/ NormalizeTimes
  \/ ZeroCrossingFilter
  \/ SegGaussianLaplace
  \/ SegZeroCrossing
  \/ SegSkeletonize
  \/ SegFillHoles
  \/ SegRemoveSmallObjects
  \/ SegClearBorder
  \/ SegLabel
  \/ LinearGrowthModel
  \/ ExponentialGrowthModel
  \/ Residual
  \/ GrowthAreaMleLstq
  \/ GenerateGrowthData
  \/ LogLikelihood
  \/ ComputeAIC
  \/ Continue

Spec == Init /\ [][Next]_vars

(***************************************************************************)
(* Claims about bacteria.py, checked under SpecBacteria                    *)
(***************************************************************************)
DetectReturned == op = "detect_growth_events"
NormalizeReturned == op = "normalize_times"

\* C1: for n >= 1 areas, detect_growth_events returns n event ids, the first
\* 0, each next one the previous plus 1 exactly when the area difference is
\* strictly below the threshold and unchanged otherwise; so the ids never
\* decrease, never jump by more than 1 and are all 0 when no difference is
\* below the threshold; [100,105,40,45,50] gives [0,0,0,0,0] at -350 and
\* [0,0,1,1,1] at -50.
C1_EventIdsFollowDrops ==
  (DetectReturned /\ Len(args.areas) >= 1) =>
    LET areas == args.areas
        n == Len(areas)
        drop(i) == areas[i] - areas[i - 1] < args.threshold
    IN  /\ Len(ret) = n
        /\ ret[1] = 0
        /\ \A i \in 2..n : ret[i] = (IF drop(i) THEN ret[i - 1] + 1 ELSE ret[i - 1])
        /\ \A i \in 2..n : ret[i - 1] <= ret[i] /\ ret[i] <= ret[i - 1] + 1
        /\ (\A i \in 2..n : ~drop(i)) => (\A i \in 1..n : ret[i] = 0)
        /\ (areas = <<100, 105, 40, 45, 50>> /\ args.threshold = -350)
             => ret = <<0, 0, 0, 0, 0>>
        /\ (areas = <<100, 105, 40, 45, 50>> /\ args.threshold = -50)
             => ret = <<0, 0, 1, 1, 1>>

C1_Witness ==
  /\ DetectReturned
  /\ args.areas = <<100, 105, 40, 45, 50>>
  /\ args.threshold = -50
  /\ ret = <<0, 0, 1, 1, 1>>

\* C2: for every list of areas, the empty and the one-element list included,
\* detect_growth_events returns a list of the same length as its input, with
\* no event transition when the input has 0 or 1 elements.
C2_SameLengthAsInput ==
  DetectReturned =>
    /\ Len(ret) = Len(args.areas)
    /\ Len(args.areas) <= 1 => (\A i \in 1..Len(ret) : ret[i] = 0)

\* position of input record i in an output grouped by ascending event id
\* with the input order kept inside each group
GroupedPos(events, i) ==
  Cardinality({j \in 1..Len(events) : events[j] < events[i]})
  + Cardinality({j \in 1..i : events[j] = events[i]})

\* the smallest time among the records of the event of record i
GroupMin(times, events, i) ==
  SetMin({times[j] : j \in {k \in 1..Len(events) : events[k] = events[i]}})

\* C3: normalize_times returns, for the distinct event ids in ascending
\* order, the times of that event in input order each reduced by the minimum
\* time of the event; the output is as long as the input and grouped by event
\* id.
C3_GroupedByEvent ==
  NormalizeReturned =>
    LET times == args.times
        events == args.events
    IN  /\ Len(ret) = Len(times)
        /\ \A i \in 1..Len(times) :
             ret[GroupedPos(events, i)] = times[i] - GroupMin(times, events, i)

C3_Witness ==
  /\ NormalizeReturned
  /\ Len(args.times) = 3
  /\ \E i \in 1..3 : GroupedPos(args.events, i) # i
  /\ \E i \in 1..3 : ret[i] # args.times[i] - GroupMin(args.times, args.events, i)
  /\ \E i \in 1..3 : GroupMin(args.times, args.events, i) > 0

\* first output position of the group of event e, and the group's size
GroupStart(events, e) == Cardinality({j \in 1..Len(events) : events[j] < e}) + 1
GroupSize(events, e) == Cardinality({j \in 1..Len(events) : events[j] = e})
GroupSlice(events, e) ==
  GroupStart(events, e)..(GroupStart(events, e) + GroupSize(events, e) - 1)

\* the times of event e are ascending in input order
AscendingWithin(times, events, e) ==
  \A j, k \in 1..Len(events) :
    (j < k /\ events[j] = e /\ events[k] = e) => times[j] <= times[k]

\* C4: every normalized time is >= 0; for each event id of the input the
\* minimum of the normalized times of its group is exactly 0, and it is the
\* first value of the group when the event's times are ascending.
C4_GroupMinimumIsZero ==
  NormalizeReturned =>
    LET times == args.times
        events == args.events
    IN  /\ \A p \in 1..Len(ret) : ret[p] >= 0
        /\ \A e \in Unique(events) :
             /\ SetMin({ret[p] : p \in GroupSlice(events, e)}) = 0
             /\ AscendingWithin(times, events, e) => ret[GroupStart(events, e)] = 0

C4_Witness ==
  /\ NormalizeReturned
  /\ Cardinality(Unique(args.events)) = 2
  /\ \E e \in Unique(args.events) :
       /\ ~AscendingWithin(args.times, args.events, e)
       /\ ret[GroupStart(args.events, e)] > 0
       /\ \E i \in 1..Len(args.events) :
            args.events[i] = e /\ GroupMin(args.times, args.events, i) > 0

NonDecreasing(xs) == \A i \in 2..Len(xs) : xs[i - 1] <= xs[i]

\* C10: when the event ids are non-decreasing, as every output of
\* detect_growth_events is, the result of normalize_times is aligned with its
\* input: output[i] = times[i] - min of the times of the event of record i.
C10_AlignedWhenSorted ==
  (NormalizeReturned /\ NonDecreasing(args.events)) =>
    /\ Len(ret) = Len(args.times)
    /\ \A i \in 1..Len(args.times) :
         ret[i] = args.times[i] - GroupMin(args.times, args.events, i)

C10_Witness ==
  /\ NormalizeReturned
  /\ NonDecreasing(args.events)
  /\ Len(args.events) = 3
  /\ Cardinality(Unique(args.events)) = 2
  /\ \E i \in 1..3 : GroupMin(args.times, args.events, i) > 0 /\ ret[i] > 0

(***************************************************************************)
(* Claims about image.py, checked under SpecZeroCrossing and               *)
(* SpecSegmentation                                                        *)
(***************************************************************************)
ZeroCrossingReturned == op = "zero_crossing_filter"
SegmentationReturned == op = "laplacian_of_gaussian_segmentation" /\ pc = "idle"

\* the pixels of the image inside the 3x3 window centred on p
Window(p) ==
  ({p[1] - 1, p[1], p[1] + 1} \cap Rows) \X ({p[2] - 1, p[2], p[2] + 1} \cap Rows)

IsBooleanMask(m) == DOMAIN m = Pix /\ \A p \in Pix : m[p] \in BOOLEAN

\* C6 as stated: zero_crossing_filter returns a boolean mask of the input's
\* shape in which a pixel is set iff its 3x3 neighbourhood contains both a
\* non-negative and a negative value and the gradient magnitude there is at
\* least threshold; so no pixel whose neighbourhood has no negative value is
\* set.
C6_Original ==
  ZeroCrossingReturned =>
    /\ IsBooleanMask(ret)
    /\ \E sobel_border \in SobelBorders : \A p \in Pix :
         ret[p] <=> /\ \E q \in Window(p) : args.im[q] >= 0
                    /\ \E q \in Window(p) : args.im[q] < 0
                    /\ GradAtLeast(args.im, p, args.threshold, sobel_border)

\* C6 amended: a pixel is set iff the gradient magnitude the Sobel filter
\* of the installed release reports there is at least threshold and either the pixel is >= 0 and its 3x3 neighbourhood holds a
\* negative value, or the pixel is <= 0 and its neighbourhood holds a
\* positive value; so no pixel whose neighbourhood holds neither a negative
\* nor a positive value is set.
C6_SignChangeAtPixel ==
  ZeroCrossingReturned =>
    /\ IsBooleanMask(ret)
    /\ \E sobel_border \in SobelBorders : \A p \in Pix :
         ret[p] <=>
           /\ \/ args.im[p] >= 0 /\ \E q \in Window(p) : args.im[q] < 0
              \/ args.im[p] <= 0 /\ \E q \in Window(p) : args.im[q] > 0
           /\ GradAtLeast(args.im, p, args.threshold, sobel_border)
    /\ \A p \in Pix : (\A q \in Window(p) : args.im[q] = 0) => ~ret[p]

\* a zero pixel with a positive neighbour and no negative one is set
C6_Witness ==
  /\ ZeroCrossingReturned
  /\ args.threshold = DefaultThreshold
  /\ \E p \in Pix :
       /\ ret[p]
       /\ args.im[p] = 0
       /\ \A q \in Window(p) : args.im[q] >= 0
       /\ \E q \in Window(p) : args.im[q] > 0

\* the positive labels of a label map, and the pixels carrying one of them
LabelsUsed(labels) == {labels[p] : p \in Pix} \ {0}
Region(labels, l) == {p \in Pix : labels[p] = l}

\* C5: the count returned as second element equals the number of labelled
\* objects plus 1 for the background, so one remaining object gives 2.
C5_CountIncludesBackground ==
  SegmentationReturned =>
    ret[2] = Cardinality(LabelsUsed(ret[1])) + 1

\* distance of a pixel from the border of the image, 0 on the outermost
\* rows and columns
BorderDistance(p) ==
  SetMin({p[1], ImgN - 1 - p[1], p[2], ImgN - 1 - p[2]})

StageOrder ==
  {<<"idle", "gaussian_laplace">>,
   <<"gaussian_laplace", "zero_crossing_filter">>,
   <<"zero_crossing_filter", "skeletonize">>,
   <<"skeletonize", "binary_fill_holes">>,
   <<"binary_fill_holes", "remove_small_objects">>,
   <<"remove_small_objects", "clear_border">>,
   <<"clear_border", "idle">>}

LabelledRegionsAdmissible ==
  (SegmentationReturned /\ args.background = 0) =>
    LET labels == ret[1]
    IN  /\ DOMAIN labels = Pix
        /\ \A p \in Pix : labels[p] >= 0
        /\ \A l \in LabelsUsed(labels) :
             LET R == Region(labels, l)
             IN  /\ Cardinality(R) >= args.min_size
                 /\ \A p \in R : BorderDistance(p) > args.buffer_size
                 /\ \A p \in R : Flood({p}, R, 2) = R

\* C9: the stages run in the order LoG filter, zero-crossing detection,
\* skeletonize, fill holes, remove small objects, clear border, label; and
\* with background = 0 every positive label of the result marks a connected
\* region of at least min_size pixels none of which is within buffer_size
\* pixels of the image border, all other pixels being labelled 0.
C9_StagesInOrder ==
  /\ [][pc' # pc => <<pc, pc'>> \in StageOrder]_vars
  /\ [][(pc = "clear_border" /\ pc' = "idle") => ret' = label(img, args.background)]_vars
  /\ []LabelledRegionsAdmissible

C9_Witness ==
  /\ SegmentationReturned
  /\ args.background = 0
  /\ args.min_size = 8
  /\ args.buffer_size = 0
  /\ Cardinality(LabelsUsed(ret[1])) = 1
  /\ Cardinality(Region(ret[1], 1)) = 8

(***************************************************************************)
(* Claims about model.py                                                   *)
(***************************************************************************)
AICReturned == op = "compute_AIC"
GenerateReturned == op = "generate_growth_data"

\* a - b for two numbers that are not nan
RDiff(a, b) == Real(PSub(a.q, b.q), a.ln2 - b.ln2, a.hl2pi - b.hl2pi)

\* -2 * L + 2 * p, written out term by term (q is in eighths)
MinusTwiceLPlusTwiceP(L, p) ==
  Real([m \in Exps |-> -2 * L.q[m] + (IF m = 0 THEN 8 * 2 * p ELSE 0)],
       -2 * L.ln2, -2 * L.hl2pi)

\* C7: compute_AIC returns -2 * (L - p) with L the value of log_likelihood
\* for the same arguments and p = len(params) = 3; hence for fixed data the
\* AIC values of two parameter tuples differ by -2 times the difference of
\* their log-likelihoods, i.e. they are ordered in reverse.
C7_AICIsMinusTwoTimesLMinusP ==
  AICReturned =>
    LET L == log_likelihood(args.params, args.model, args.times, args.areas)
    IN  /\ Len(args.params) = 3
        /\ ret.nan = L.nan
        /\ ~L.nan => ret = MinusTwiceLPlusTwiceP(L, 3)
        /\ \A other \in ParamTuples :
             LET L2 == log_likelihood(other, args.model, args.times, args.areas)
                 A2 == compute_AIC(other, args.model, args.times, args.areas)
             IN  (~L.nan /\ ~L2.nan) =>
                   RDiff(A2, ret) = RTimesInt(-2, RDiff(L2, L))

C7_Witness ==
  /\ AICReturned
  /\ ~ret.nan
  /\ args.model = "exponential_growth_model"
  /\ args.params = <<2, 1, 2>>
  /\ args.times = <<1, 2>>
  /\ args.areas = <<3, 1>>
  /\ ret.q[0] # 48
  /\ ret.ln2 = 4

\* C8: a call of generate_growth_data advances rg by one vector draw per
\* replicate (len(times) samples each) and returns size rows of len(times)
\* samples; no other step changes rg; no call changes its arguments.
C8_OnlyGenerateAdvancesRg ==
  [][/\ (op' = "generate_growth_data") =>
          /\ rg'.calls = rg.calls + args'.size
          /\ rg'.samples = rg.samples + args'.size * Len(args'.times)
          /\ Len(ret') = args'.size
          /\ \A i \in 1..Len(ret') : Len(ret'[i]) = Len(args'.times)
     /\ (op' # "generate_growth_data") => rg' = rg
     /\ argsAfter' = args']_vars

C8_Witness ==
  /\ GenerateReturned
  /\ args.size = 2
  /\ Len(args.times) = 2
  /\ rg = [calls |-> 2, samples |-> 4]
  /\ Len(ret) = 2
  /\ argsAfter = args

=============================================================================
